---------------------------- MODULE Spec2Model ----------------------------
(***************************************************************************)
(* A model of the AI dice roller extension (src/script.js).                *)
(*                                                                         *)
(* src/script.js holds two revisions of the script back to back: lines     *)
(* 1-93 and lines 95-201.  Each has its own rollDice, its own              *)
(* registerAiDiceRoller and its own ready callback; they differ in the     *)
(* description text and in what the handler logs.  The variable `version`  *)
(* says which revision is loaded.                                          *)
(*                                                                         *)
(* Text is a sequence of tokens: a literal of the source is one token, and *)
(* every character of a value spliced into a template is a token.          *)
(* The droll library and the host (getContext) are not in src/; they are   *)
(* modelled from the contract spec.md states for them.                     *)
(***************************************************************************)
EXTENDS Integers, Sequences, FiniteSets

VARIABLES
    version,              \* the revision of the script that is loaded
    toolCallingSupported, \* what context.isToolCallingSupported() answers
    registry,             \* the host's tool registry: a sequence of descriptors
    phase,                \* "loading" until the ready callback has run, then "ready"
    registerCalls,        \* calls of context.registerFunctionTool made so far
    registerRaised,       \* whether the host's registry raised on that call
    propagated,           \* whether an error left the ready callback uncaught
    console,              \* the lines the latest callback wrote to the console
    request,              \* the tool call the agent has issued and the host has not run yet
    last                  \* what the latest invocation of the handler did

vars == <<version, toolCallingSupported, registry, phase, registerCalls,
          registerRaised, propagated, console, request, last>>

(***************************************************************************)
(* Bounds of the model.                                                    *)
(***************************************************************************)
MaxLen == 5
MaxDice == 2
MaxSides == 3
MaxMod == 3

(***************************************************************************)
(* JavaScript values.                                                      *)
(***************************************************************************)
Undefined == [type |-> "undefined"]
Null == [type |-> "null"]
Num(n) == [type |-> "number", num |-> n]
Str(s) == [type |-> "string", str |-> s]
Obj(v) == [type |-> "object", formula |-> v]
PlainObject == [type |-> "object"]
None == [type |-> "none"]

Typeof(v) == IF v.type = "null" THEN "object" ELSE v.type

Digits == <<"0", "1", "2", "3", "4", "5", "6", "7", "8", "9">>
DigitChars == {Digits[i] : i \in 1..10}
DigitValue(c) == (CHOOSE i \in 1..10 : Digits[i] = c) - 1

RECURSIVE NatToChars(_)
NatToChars(n) ==
    IF n < 10 THEN <<Digits[n + 1]>>
    ELSE NatToChars(n \div 10) \o <<Digits[(n % 10) + 1]>>

\* Number to string, as a template literal and JSON.stringify write an integer.
NumberToString(n) == IF n < 0 THEN <<"-">> \o NatToChars(-n) ELSE NatToChars(n)

\* The string a template literal `${v}` splices in.
ToString(v) ==
    CASE v.type = "undefined" -> <<"u", "n", "d", "e", "f", "i", "n", "e", "d">>
      [] v.type = "null" -> <<"n", "u", "l", "l">>
      [] v.type = "number" -> NumberToString(v.num)
      [] v.type = "string" -> v.str
      [] OTHER -> <<"[object Object]">>

RECURSIVE SumSeq(_)
SumSeq(s) == IF s = <<>> THEN 0 ELSE s[1] + SumSeq(Tail(s))

(***************************************************************************)
(* The droll library (FormulaEngine of spec.md, sections 3 and 4.1).       *)
(***************************************************************************)
\* The index of the first token of s at or after i that is not a digit.
RECURSIVE SkipDigits(_, _)
SkipDigits(s, i) ==
    IF i <= Len(s) /\ s[i] \in DigitChars THEN SkipDigits(s, i + 1) ELSE i

RECURSIVE CharsToNat(_)
CharsToNat(s) ==
    IF s = <<>> THEN 0
    ELSE 10 * CharsToNat(SubSeq(s, 1, Len(s) - 1)) + DigitValue(s[Len(s)])

NoParse == [ok |-> FALSE, numDice |-> 0, numSides |-> 0, modifier |-> 0]

\* A left-to-right scan of N "d" M [("+"|"-") K], N >= 1, M >= 2.
drollParse(s) ==
    LET i == SkipDigits(s, 1)
        j == SkipDigits(s, i + 1)
        k == SkipDigits(s, j + 1)
        n == CharsToNat(SubSeq(s, 1, i - 1))
        m == CharsToNat(SubSeq(s, i + 1, j - 1))
        kk == CharsToNat(SubSeq(s, j + 1, k - 1))
    IN  IF i = 1 \/ i > Len(s) \/ s[i] # "d" \/ j = i + 1 THEN NoParse
        ELSE IF n < 1 \/ m < 2 THEN NoParse
        ELSE IF j > Len(s)
             THEN [ok |-> TRUE, numDice |-> n, numSides |-> m, modifier |-> 0]
        ELSE IF s[j] \notin {"+", "-"} \/ k = j + 1 \/ k <= Len(s) THEN NoParse
        ELSE [ok |-> TRUE, numDice |-> n, numSides |-> m,
              modifier |-> IF s[j] = "-" THEN -kk ELSE kk]

drollValidate(s) == drollParse(s).ok

\* droll.roll: draws are the die values the random source produced, in order.
\* Its precondition, drollValidate(s), holds at its only call site.
drollRoll(s, draws) ==
    [type |-> "object",
     total |-> SumSeq(draws) + drollParse(s).modifier,
     rolls |-> draws]

(***************************************************************************)
(* rollDice and the tool handler.                                          *)
(***************************************************************************)
Line(level, text) == [level |-> level, text |-> text]

\* JSON.stringify of a roll outcome.
RECURSIVE JoinNumbers(_)
JoinNumbers(s) ==
    IF s = <<>> THEN <<>>
    ELSE IF Len(s) = 1 THEN NumberToString(s[1])
    ELSE NumberToString(s[1]) \o <<",">> \o JoinNumbers(Tail(s))

JSONStringify(v) ==
    IF v.type = "null" THEN <<"n", "u", "l", "l">>
    ELSE <<"{\"total\":">> \o NumberToString(v.total)
         \o <<",\"rolls\":[">> \o JoinNumbers(v.rolls) \o <<"]}">>

\* What one call of rollDice does: the value it returns, the lines it writes,
\* what droll.validate answered ("true", "false", or "not called") and how
\* often droll.roll was called.
rollDiceSkipsValidate(formula, draws) ==
    IF Typeof(formula) # "string"
    THEN [result |-> Null,
          console |-> <<Line("error", <<"[AI-Dice-Roller] Invalid dice formula provided: ">>
                                      \o ToString(formula))>>,
          validated |-> "not called",
          rollCalls |-> 0]
    ELSE [result |-> drollRoll(formula.str, draws),
          console |-> <<>>,
          validated |-> "not called",
          rollCalls |-> 1]

rollDiceSilent(formula, draws) ==
    IF Typeof(formula) # "string"
    THEN [result |-> Null, console |-> <<>>, validated |-> "not called", rollCalls |-> 0]
    ELSE IF ~drollValidate(formula.str)
    THEN [result |-> Null, console |-> <<>>, validated |-> "false", rollCalls |-> 0]
    ELSE [result |-> drollRoll(formula.str, draws),
          console |-> <<>>,
          validated |-> "true",
          rollCalls |-> 1]

rollDice(formula, draws) ==
    IF Typeof(formula) # "string"
    THEN [result |-> Null,
          console |-> <<Line("error", <<"[AI-Dice-Roller] Invalid dice formula provided: ">>
                                      \o ToString(formula))>>,
          validated |-> "not called",
          rollCalls |-> 0]
    ELSE IF ~drollValidate(formula.str)
    THEN [result |-> Null,
          console |-> <<Line("error", <<"[AI-Dice-Roller] Invalid dice formula provided: ">>
                                      \o ToString(formula))>>,
          validated |-> "false",
          rollCalls |-> 0]
    ELSE [result |-> drollRoll(formula.str, draws),
          console |-> <<>>,
          validated |-> "true",
          rollCalls |-> 1]

Fulfilled(text) == [kind |-> "fulfilled", value |-> text]
Rejected(error) == [kind |-> "rejected", reason |-> error]

ErrorMessage(formula) ==
    <<"Error: Invalid dice formula \"">> \o ToString(formula)
    \o <<"\". Please provide a valid formula like '1d20' or '2d6+3'.">>

\* The lines the first revision's handler logs and the second's does not.
LogIf(ver, text) == IF ver = 1 THEN <<Line("log", text)>> ELSE <<>>

\* What the model records of one invocation: its argument and draws, what
\* rollDice did (r), how the promise settled and the lines written.
Invocation(arg, draws, r, settled, lines) ==
    [arg |-> arg, draws |-> draws, destructured |-> TRUE,
     validated |-> r.validated, rollCalls |-> r.rollCalls, result |-> r.result,
     settled |-> settled, console |-> lines]

Started(ver, formula) ==
    LogIf(ver, <<"[AI-Dice-Roller] Action started for formula: ">> \o ToString(formula))

actionBodyWrongMessage(ver, arg, formula, draws) ==
    LET r == rollDice(formula, draws)
    IN  IF r.result.type # "null"
        THEN Invocation(arg, draws, r, Fulfilled(JSONStringify(r.result)),
                        Started(ver, formula) \o r.console)
        ELSE Invocation(arg, draws, r,
                        Fulfilled(<<"Error: Invalid dice formula.">>),
                        Started(ver, formula) \o r.console)

actionBodyTotalOnly(ver, arg, formula, draws) ==
    LET r == rollDice(formula, draws)
    IN  IF r.result.type # "null"
        THEN Invocation(arg, draws, r, Fulfilled(NumberToString(r.result.total)),
                        Started(ver, formula) \o r.console)
        ELSE Invocation(arg, draws, r, Fulfilled(ErrorMessage(formula)),
                        Started(ver, formula) \o r.console)

\* A handler that keeps its outcome in a variable shared between invocations.
actionBodyShared(ver, arg, formula, draws) ==
    LET r == rollDice(formula, draws)
        shared == IF last # None /\ last.result.type = "object"
                  THEN [type |-> "object",
                        total |-> last.result.total + r.result.total,
                        rolls |-> last.result.rolls \o r.result.rolls]
                  ELSE r.result
    IN  IF r.result.type # "null"
        THEN Invocation(arg, draws, [r EXCEPT !.result = shared],
                        Fulfilled(JSONStringify(shared)),
                        Started(ver, formula) \o r.console)
        ELSE Invocation(arg, draws, r, Fulfilled(ErrorMessage(formula)),
                        Started(ver, formula) \o r.console)

\* The handler body once its parameter { formula } is bound.
actionBody(ver, arg, formula, draws) ==
    LET r == rollDice(formula, draws)
    IN  IF r.result.type # "null"
        THEN LET jsonResult == JSONStringify(r.result)
             IN  Invocation(arg, draws, r, Fulfilled(jsonResult),
                     Started(ver, formula) \o r.console
                     \o LogIf(ver, <<"[AI-Dice-Roller] Returning successful result: ">>
                                   \o jsonResult))
        ELSE LET errorMessage == ErrorMessage(formula)
             IN  Invocation(arg, draws, r, Fulfilled(errorMessage),
                     Started(ver, formula) \o r.console
                     \o LogIf(ver, <<"[AI-Dice-Roller] Returning error: ">>
                                   \o errorMessage))

\* action: async ({ formula }) => ...  An async function that throws settles
\* its promise as rejected; destructuring undefined or null throws a TypeError
\* before the body runs, and nothing in the handler catches it.
action(ver, arg, draws) ==
    IF arg.type \in {"undefined", "null"}
    THEN [arg |-> arg, draws |-> draws, destructured |-> FALSE,
          validated |-> "not called", rollCalls |-> 0, result |-> Undefined,
          settled |-> Rejected("TypeError"), console |-> <<>>]
    ELSE actionBody(ver, arg,
                    IF "formula" \in DOMAIN arg THEN arg.formula ELSE Undefined,
                    draws)

(***************************************************************************)
(* The tool descriptor and its registration.                               *)
(***************************************************************************)
ToolName == "roll_dice_formula"
OurAction == "ai-dice-roller action"

\* The description, line by line (the second revision's after .trim()).
Description(ver) ==
    IF ver = 1
    THEN << "Use this function for dice rolls. It returns a JSON object with 'total' and an array of 'rolls'.",
            "",
            "**Advantage/Disadvantage Rolls:**",
            "- **Advantage:** Set formula to '2d20'. You must then use the HIGHER value from the returned 'rolls' array.",
            "- **Disadvantage:** Set formula to '2d20'. You must then use the LOWER value from the returned 'rolls' array." >>
    ELSE << "Use this function to determine the outcome of a random event or a skill check.",
            "You must provide a valid dice formula. The function will return a JSON object containing the total sum and an array of the individual dice rolls.",
            "**For special rolls like Advantage/Disadvantage, you must handle the logic yourself:**",
            "- **Advantage Roll (e.g., on a d20):** Set the formula to '2d20'. Then, from the returned 'rolls' array, you must select the HIGHER value as the final result.",
            "- **Disadvantage Roll (e.g., on a d20):** Set the formula to '2d20'. Then, from the returned 'rolls' array, you must select the LOWER value as the final result.",
            "Example: For an Advantage roll, you call with '2d20'. The tool returns {\"total\":25,\"rolls\":[17,8]}. You then state that the result is 17." >>

parametersSchema(ver) ==
    [schema |-> "http://json-schema.org/draft-04/schema#",
     type |-> "object",
     properties |->
        [formula |->
            [type |-> "string",
             description |->
                IF ver = 1
                THEN "A standard dice formula, such as '1d100', '3d6', or '1d20+5'."
                ELSE "A standard dice formula, such as '1d100', '3d6', or '1d20+5'. This is used to calculate the result of a random event or a skill check."]],
     required |-> <<"formula">>]

\* The object literal handed to context.registerFunctionTool.  action is the
\* handler closure; formatMessage is given by the string it returns.
ToolDescriptor(ver) ==
    [name |-> ToolName,
     displayName |-> "AI Dice Roller",
     description |-> Description(ver),
     parameters |-> parametersSchema(ver),
     action |-> OurAction,
     formatMessage |-> "",
     stealth |-> FALSE]

\* Tools other extensions may have installed before this one loads.
ForeignTool(name) ==
    [name |-> name,
     displayName |-> "Another tool",
     description |-> <<"Another extension's tool.">>,
     parameters |-> [schema |-> "", type |-> "object",
                     properties |-> [formula |-> [type |-> "string", description |-> ""]],
                     required |-> <<>>],
     action |-> "foreign action",
     formatMessage |-> "",
     stealth |-> FALSE]

InitialRegistries == {<<>>, <<ForeignTool("other_tool")>>, <<ForeignTool(ToolName)>>}

SuccessLine(ver) ==
    IF ver = 1
    THEN "[AI-Dice-Roller] Dice rolling function tool registered successfully with updated description for Advantage/Disadvantage."
    ELSE "[AI-Dice-Roller] Dice rolling function tool registered successfully."
UnsupportedLine ==
    "[AI-Dice-Roller] Function calling is not supported or not enabled. The tool will not be registered."
FailedLine == "[AI-Dice-Roller] Failed to register the function tool:"

\* context.registerFunctionTool: the host either installs the descriptor or raises.
registerFunctionTool(reg, descriptor, hostRaises) ==
    IF hostRaises THEN [raised |-> TRUE, error |-> "Error", registry |-> reg]
    ELSE [raised |-> FALSE, error |-> "", registry |-> Append(reg, descriptor)]

\* What one call of registerAiDiceRoller does, given what the host answers.
registerAiDiceRollerNoCheck(ver, supported, hostRaises, reg) ==
    LET r == registerFunctionTool(reg, ToolDescriptor(ver), hostRaises)
    IN  [registry |-> r.registry, calls |-> 1, raised |-> r.raised, propagated |-> FALSE,
         console |-> IF r.raised THEN <<Line("error", <<FailedLine, r.error>>)>>
                     ELSE <<Line("log", <<SuccessLine(ver)>>)>>]

registerAiDiceRollerNoCatch(ver, supported, hostRaises, reg) ==
    IF ~supported
    THEN [registry |-> reg, calls |-> 0, raised |-> FALSE, propagated |-> FALSE,
          console |-> <<Line("log", <<UnsupportedLine>>)>>]
    ELSE LET r == registerFunctionTool(reg, ToolDescriptor(ver), hostRaises)
         IN  [registry |-> r.registry, calls |-> 1, raised |-> r.raised,
              propagated |-> r.raised,
              console |-> IF r.raised THEN <<>>
                          ELSE <<Line("log", <<SuccessLine(ver)>>)>>]

registerAiDiceRollerTwice(ver, supported, hostRaises, reg) ==
    IF ~supported
    THEN [registry |-> reg, calls |-> 0, raised |-> FALSE, propagated |-> FALSE,
          console |-> <<Line("log", <<UnsupportedLine>>)>>]
    ELSE LET r == registerFunctionTool(reg, ToolDescriptor(ver), hostRaises)
             q == registerFunctionTool(r.registry, ToolDescriptor(ver), hostRaises)
         IN  [registry |-> q.registry, calls |-> 2, raised |-> r.raised,
              propagated |-> FALSE,
              console |-> IF r.raised THEN <<Line("error", <<FailedLine, r.error>>)>>
                          ELSE <<Line("log", <<SuccessLine(ver)>>)>>]

registerAiDiceRoller(ver, supported, hostRaises, reg) ==
    IF ~supported
    THEN [registry |-> reg, calls |-> 0, raised |-> FALSE, propagated |-> FALSE,
          console |-> <<Line("log", <<UnsupportedLine>>)>>]
    ELSE LET r == registerFunctionTool(reg, ToolDescriptor(ver), hostRaises)
         IN  [registry |-> r.registry, calls |-> 1, raised |-> r.raised,
              propagated |-> FALSE,
              console |-> IF r.raised THEN <<Line("error", <<FailedLine, r.error>>)>>
                          ELSE <<Line("log", <<SuccessLine(ver)>>)>>]

Installed(reg) == {i \in 1..Len(reg) : reg[i].action = OurAction}

(***************************************************************************)
(* Inputs.                                                                 *)
(***************************************************************************)
Alphabet == {"0", "1", "2", "3", "d", "+", "-", " "}

Strings(n) == UNION {[1..k -> Alphabet] : k \in 0..n}

\* Strings the specification names, and boundary cases of N, M and K.
NamedRejects ==
    { <<>>, <<"d", "2", "0">>, <<"1", "d">>, <<"1", "d", "1">>,
      <<"1", "x", "2", "0">>, <<" ", " ">>, <<"2", "0", "d", "1", ".", "5">>,
      <<"i", "n", "v", "a", "l", "i", "d">> }
NamedFormulas ==
    { <<"1", "d", "2", "0">>, <<"1", "d", "2", "0", "+", "0">>,
      <<"2", "d", "6", "+", "5">>, <<"2", "d", "2", "0">>,
      <<"0", "d", "2">>, <<"1", "d", "0">>, <<"1", "d", "2", "-", "0">> }

\* The strings tried: every string up to MaxLen over Alphabet whose dice, if it
\* is a formula, stay within MaxDice and MaxSides, and the named ones.
Formulas ==
    {s \in Strings(MaxLen) :
        LET p == drollParse(s)
        IN  p.ok => (p.numDice <= MaxDice /\ p.numSides <= MaxSides)}
    \cup NamedRejects \cup NamedFormulas

NonStrings == {Undefined, Null, Num(20), PlainObject}

HandlerArgs ==
    {Undefined, Null, PlainObject}
    \cup {Obj(v) : v \in NonStrings}
    \cup {Obj(Str(s)) : s \in Formulas}

SpecArgs ==
    {Undefined, PlainObject, Obj(Num(20))}
    \cup {Obj(Str(s)) : s \in { <<>>, <<"1", "d", "1">>, <<"d", "2">>,
                                <<"1", "d", "2">>, <<"2", "d", "2", "+", "1">>,
                                <<"1", "d", "3", "-", "2">>,
                                <<"i", "n", "v", "a", "l", "i", "d">> }}

\* The die values the random source can produce for one invocation.
DrawsFor(arg) ==
    IF arg.type = "object" /\ "formula" \in DOMAIN arg /\ arg.formula.type = "string"
       /\ drollParse(arg.formula.str).ok
    THEN LET p == drollParse(arg.formula.str)
         IN  [1..p.numDice -> 1..p.numSides]
    ELSE {<<>>}

(***************************************************************************)
(* The state machine.                                                      *)
(***************************************************************************)
Init ==
    /\ version \in {1, 2}
    /\ toolCallingSupported \in BOOLEAN
    /\ registry \in InitialRegistries
    /\ phase = "loading"
    /\ registerCalls = 0
    /\ registerRaised = FALSE
    /\ propagated = FALSE
    /\ console = <<>>
    /\ request = None
    /\ last = None

\* jQuery(function () { registerAiDiceRoller(); }): runs once, when the UI is ready.
Ready ==
    /\ phase = "loading"
    /\ \E hostRaises \in BOOLEAN :
         LET r == registerAiDiceRoller(version, toolCallingSupported, hostRaises, registry)
         IN  /\ registry' = r.registry
             /\ registerCalls' = registerCalls + r.calls
             /\ registerRaised' = r.raised
             /\ propagated' = r.propagated
             /\ console' = r.console
    /\ phase' = "ready"
    /\ UNCHANGED <<version, toolCallingSupported, request, last>>

\* The agent asks for the tool; the host can only dispatch to an installed handler.
AgentRequests(args) ==
    /\ phase = "ready"
    /\ Installed(registry) # {}
    /\ request = None
    /\ \E arg \in args : request' = arg
    /\ UNCHANGED <<version, toolCallingSupported, registry, phase, registerCalls,
                   registerRaised, propagated, console, last>>

\* The host runs the installed handler on the pending tool call.
HostInvoke ==
    /\ request # None
    /\ Installed(registry) # {}
    /\ \E draws \in DrawsFor(request) :
         LET a == action(version, request, draws)
         IN  /\ last' = a
             /\ console' = a.console
    /\ request' = None
    /\ UNCHANGED <<version, toolCallingSupported, registry, phase, registerCalls,
                   registerRaised, propagated>>

Next ==
    \/ Ready
    \/ AgentRequests(SpecArgs)
    \/ HostInvoke

Spec == Init /\ [][Next]_vars

\* The handler on every input of HandlerArgs: the state after a successful
\* registration into an empty registry, with one tool call pending.
InitHandler ==
    /\ version \in {1, 2}
    /\ toolCallingSupported = TRUE
    /\ LET r == registerAiDiceRoller(version, TRUE, FALSE, <<>>)
       IN  /\ registry = r.registry
           /\ registerCalls = r.calls
           /\ registerRaised = r.raised
           /\ propagated = r.propagated
           /\ console = r.console
    /\ phase = "ready"
    /\ request \in HandlerArgs
    /\ last = None

NextHandler == HostInvoke

SpecHandler == InitHandler /\ [][NextHandler]_vars

(***************************************************************************)
(* Properties.                                                             *)
(***************************************************************************)
\* The value bound to the handler's parameter { formula } in the latest invocation.
LastFormula == IF "formula" \in DOMAIN last.arg THEN last.arg.formula ELSE Undefined

ErrorLines(lines) == {i \in 1..Len(lines) : lines[i].level = "error"}

\* C1: the handler never raises: every invocation settles by returning a
\* string, never by a rejected promise.
C1_HandlerNeverRaises ==
    last # None => last.settled.kind = "fulfilled"

\* C2: whenever rollDice returns null, the handler returns exactly
\* Error: Invalid dice formula "<f>". Please provide a valid formula like
\* '1d20' or '2d6+3'. with <f> the formula as received, and no JSON outcome.
C2_RejectedFormulaGetsErrorString ==
    (last # None /\ last.destructured /\ last.result = Null) =>
        /\ last.settled.kind = "fulfilled"
        /\ last.settled.value =
              <<"Error: Invalid dice formula \"">>
              \o (IF LastFormula.type = "string" THEN LastFormula.str
                  ELSE ToString(LastFormula))
              \o <<"\". Please provide a valid formula like '1d20' or '2d6+3'.">>
        /\ last.settled.value[1] # "{\"total\":"

C2_Witness ==
    /\ last # None
    /\ last.arg = Obj(Str(<<"i", "n", "v", "a", "l", "i", "d">>))
    /\ last.result = Null
    /\ last.settled =
          Fulfilled(<<"Error: Invalid dice formula \"", "i", "n", "v", "a", "l", "i", "d",
                      "\". Please provide a valid formula like '1d20' or '2d6+3'.">>)

\* The text of the formula N d M, N d M + K or N d M - K.
Fmt(n, m, k, form) ==
    NatToChars(n) \o <<"d">> \o NatToChars(m)
    \o (CASE form = "plain" -> <<>>
          [] form = "plus" -> <<"+">> \o NatToChars(k)
          [] form = "minus" -> <<"-">> \o NatToChars(k))

WellFormedCase(n, m, k, form) ==
    [text |-> Fmt(n, m, k, form), n |-> n, m |-> m,
     modifier |-> IF form = "minus" THEN -k ELSE k]

WellFormed ==
    {WellFormedCase(n, m, 0, "plain") : n \in 1..MaxDice, m \in 2..MaxSides}
    \cup UNION {{WellFormedCase(n, m, k, form) : n \in 1..MaxDice, m \in 2..MaxSides} :
                    k \in 0..MaxMod, form \in {"plus", "minus"}}
    \cup {WellFormedCase(1, 20, 0, "plain"), WellFormedCase(1, 20, 0, "plus"),
          WellFormedCase(2, 6, 5, "plus"), WellFormedCase(2, 20, 0, "plain"),
          WellFormedCase(1, 2, 0, "minus")}

\* C3: for a well-formed formula NdM+K or NdM-K the handler returns the JSON
\* text of {total, rolls} where rolls are the N draws in order, each in 1..M,
\* and total is their sum plus the signed modifier.
C3_WellFormedFormulaRolls ==
    (last # None /\ last.destructured /\ LastFormula.type = "string") =>
        \A w \in WellFormed :
            LastFormula.str = w.text =>
                /\ Len(last.draws) = w.n
                /\ \A i \in 1..Len(last.draws) : last.draws[i] \in 1..w.m
                /\ last.settled =
                      Fulfilled(<<"{\"total\":">>
                                \o NumberToString(SumSeq(last.draws) + w.modifier)
                                \o <<",\"rolls\":[">> \o JoinNumbers(last.draws)
                                \o <<"]}">>)

C3_Witness ==
    /\ last # None
    /\ last.arg = Obj(Str(<<"2", "d", "6", "+", "5">>))
    /\ last.draws = <<6, 1>>
    /\ last.settled =
          Fulfilled(<<"{\"total\":", "1", "2", ",\"rolls\":[", "6", ",", "1", "]}">>)

\* C4: when tool calling is not supported, registerFunctionTool is never
\* called, the registry never changes, no error is raised or logged, and the
\* handler is never invoked.
C4_UnsupportedSkipsRegistration ==
    [][~toolCallingSupported =>
          /\ registry' = registry
          /\ registerCalls' = 0
          /\ Installed(registry') = {}
          /\ ~propagated'
          /\ ErrorLines(console') = {}
          /\ request' = None
          /\ last' = None]_vars

C4_Witness ==
    /\ phase = "ready"
    /\ ~toolCallingSupported
    /\ registerCalls = 0
    /\ console = <<Line("log", <<UnsupportedLine>>)>>

\* C5: when the registry raises, registerAiDiceRoller returns normally, logs
\* an error and not the success message, adds no descriptor, and nothing
\* propagates out of the ready callback.
C5_RegistrationFailureContained ==
    [][(phase = "loading" /\ phase' = "ready" /\ registerRaised') =>
          /\ ~propagated'
          /\ registry' = registry
          /\ Installed(registry') = {}
          /\ ErrorLines(console') # {}
          /\ \A i \in 1..Len(console') :
                /\ console'[i].text[1] # SuccessLine(version)
                /\ console'[i].level = "error" => console'[i].text[1] = FailedLine]_vars

C5_Witness ==
    /\ phase = "ready"
    /\ registerRaised
    /\ registerCalls = 1
    /\ ~propagated
    /\ console = <<Line("error", <<FailedLine, "Error">>)>>

IsNumeral(s) == s # <<>> /\ \A i \in 1..Len(s) : s[i] \in DigitChars
AtLeastOne(s) == IsNumeral(s) /\ \E i \in 1..Len(s) : s[i] # "0"
AtLeastTwo(s) ==
    /\ IsNumeral(s)
    /\ \/ s[Len(s)] \notin {"0", "1"}
       \/ \E i \in 1..(Len(s) - 1) : s[i] # "0"
MatchesGrammar(s) ==
    \E i \in 1..Len(s) :
        /\ s[i] = "d"
        /\ AtLeastOne(SubSeq(s, 1, i - 1))
        /\ \/ AtLeastTwo(SubSeq(s, i + 1, Len(s)))
           \/ \E j \in (i + 1)..Len(s) :
                 /\ s[j] \in {"+", "-"}
                 /\ AtLeastTwo(SubSeq(s, i + 1, j - 1))
                 /\ IsNumeral(SubSeq(s, j + 1, Len(s)))

DescriptorFields ==
    {"name", "displayName", "description", "parameters", "action", "formatMessage", "stealth"}

\* C8: after a supported, accepted registration the registry holds exactly
\* one descriptor of this adapter, named roll_dice_formula, installed by one
\* registerFunctionTool call, with the seven fields and a schema of one
\* required string field formula; nothing later changes the registry.
C8_OneDescriptorInstalledOnce ==
    [][/\ (phase' = "ready" /\ toolCallingSupported' /\ ~registerRaised') =>
             /\ Cardinality(Installed(registry')) = 1
             /\ registerCalls' = 1
             /\ \A i \in Installed(registry') :
                   /\ registry'[i].name = "roll_dice_formula"
                   /\ DOMAIN registry'[i] = DescriptorFields
                   /\ DOMAIN registry'[i].parameters.properties = {"formula"}
                   /\ registry'[i].parameters.properties.formula.type = "string"
                   /\ registry'[i].parameters.required = <<"formula">>
       /\ phase = "ready" => (registry' = registry /\ registerCalls' = registerCalls)]_vars

C8_Witness ==
    /\ phase = "ready"
    /\ Cardinality(Installed(registry)) = 1
    /\ Len(registry) = 2
    /\ registerCalls = 1
    /\ last # None
    /\ last.settled.kind = "fulfilled"

\* The description lines that state each point.
ReturnShapeLines ==
    {"Use this function for dice rolls. It returns a JSON object with 'total' and an array of 'rolls'.",
     "You must provide a valid dice formula. The function will return a JSON object containing the total sum and an array of the individual dice rolls.",
     "Example: For an Advantage roll, you call with '2d20'. The tool returns {\"total\":25,\"rolls\":[17,8]}. You then state that the result is 17."}
AdvantageLines ==
    {"- **Advantage:** Set formula to '2d20'. You must then use the HIGHER value from the returned 'rolls' array.",
     "- **Disadvantage:** Set formula to '2d20'. You must then use the LOWER value from the returned 'rolls' array.",
     "- **Advantage Roll (e.g., on a d20):** Set the formula to '2d20'. Then, from the returned 'rolls' array, you must select the HIGHER value as the final result.",
     "- **Disadvantage Roll (e.g., on a d20):** Set the formula to '2d20'. Then, from the returned 'rolls' array, you must select the LOWER value as the final result."}
\* No line of either description tells the agent to batch rolls into one formula.
BatchingLines == {}
Covers(description, lines) == \E i \in 1..Len(description) : description[i] \in lines

\* C9: every installed descriptor's description instructs the agent on the
\* JSON return shape, on advantage/disadvantage as '2d20', and on batching
\* repeated rolls into one larger-N formula.
C9_DescriptionCoversThreePoints ==
    \A i \in Installed(registry) :
        /\ Covers(registry[i].description, ReturnShapeLines)
        /\ Covers(registry[i].description, AdvantageLines)
        /\ Covers(registry[i].description, BatchingLines)

\* C10: an invocation changes nothing but the console, and its result is
\* decided by its own argument and draws: invoked again with the same
\* argument and draws, the handler settles the same way.
C10_InvocationsIndependent ==
    [][(request # None /\ request' = None) =>
          /\ registry' = registry
          /\ registerCalls' = registerCalls
          /\ <<version', toolCallingSupported', phase', registerRaised', propagated'>>
                = <<version, toolCallingSupported, phase, registerRaised, propagated>>
          /\ last'.arg = request
          /\ (last # None /\ last.arg = last'.arg /\ last.draws = last'.draws) =>
                (last'.settled = last.settled /\ last'.result = last.result)]_vars

C10_Witness ==
    /\ last # None
    /\ request = last.arg
    /\ last.result.type = "object"
    /\ Cardinality(Installed(registry)) = 1

=============================================================================
